---- MODULE Spec2Model ----
(***************************************************************************)
(* Model of aptos-framework/releases/src/lib.rs: the release-module loader *)
(* and its two process-wide lazily initialised caches.                     *)
(*                                                                         *)
(* A module blob is a sequence of bytes.  The release fetcher, the module  *)
(* deserializer, the file enumerator and the file system are the loader's  *)
(* environment: the release store's entry for "current" and the panic      *)
(* strategy of the build are chosen in Init, the file system is fixed.     *)
(***************************************************************************)
EXTENDS Integers, Sequences, FiniteSets, TLC

VARIABLES
    current_release,      \* what the release store holds for "current"
    panic_strategy,       \* "unwind" or "abort": the build's panic strategy
    aborted,              \* TRUE once the process has been aborted by a panic
    CURRENT_MODULE_BLOBS, \* Tier 1 cell: [state, init, value]
    CURRENT_MODULES,      \* Tier 2 cell: [state, init, value]
    pc,                   \* per thread: where it stands
    op,                   \* per thread: the public operation it is inside
    acc,                  \* per thread: modules collected so far by the Tier 2 initializer
    init_fetches,         \* history: fetches of "current" run by the Tier 1 initializer
    deser_count,          \* history: per blob index, deserializations run by the Tier 2 initializer
    fetcher_calls,        \* history: all calls of the release fetcher
    called,               \* history: the cached accessors that have been called
    observed_blobs,       \* history: the values current_module_blobs() has returned
    observed_modules,     \* history: the values current_modules() has returned
    ret                   \* the last completed call of a loader: [op, name, paths, out]

vars == <<current_release, panic_strategy, aborted, CURRENT_MODULE_BLOBS,
          CURRENT_MODULES, pc, op, acc, init_fetches, deser_count,
          fetcher_calls, called, observed_blobs, observed_modules, ret>>

cacheVars == <<CURRENT_MODULE_BLOBS, CURRENT_MODULES, init_fetches, deser_count,
               called, observed_blobs, observed_modules>>

(*************************** bounds ****************************************)
NumThreads == 2        \* concurrent callers
MaxBlobs == 2          \* modules in the "current" release
MaxPaths == 2          \* length of the path list given to load_modules_from_paths
MaxFetcherCalls == 1    \* direct calls of load_modules_from_release

Threads == 1..NumThreads

(*************************** sequences *************************************)
SeqsUpTo(S, n) == UNION {[1..k -> S] : k \in 0..n}

RECURSIVE Concat(_)
Concat(ss) == IF ss = <<>> THEN <<>> ELSE Head(ss) \o Concat(Tail(ss))

(*************************** results ***************************************)
Ok(v) == [kind |-> "Ok", val |-> v, cause |-> ""]
Err(c) == [kind |-> "Err", val |-> <<>>, cause |-> c]
Panic(c) == [kind |-> "Panic", val |-> <<>>, cause |-> c]

(*************************** release fetcher *******************************)
\* The bytes a blob may hold: a blob whose first byte is 0 is malformed.
BlobPool == {<<0, 7>>, <<1, 7>>, <<2, 8>>}

ReleaseNames == {"current", "nonexistent-release-xyz"}

ReleaseOutcomes == {Err("current")} \cup {Ok(bs) : bs \in SeqsUpTo(BlobPool, MaxBlobs)}

\* ReleaseFetcher::new(Release::Aptos, release_name).module_blobs()
module_blobs(release_name) ==
    IF release_name = "current" THEN current_release ELSE Err(release_name)

(*************************** module deserializer ***************************)
\* CompiledModule::deserialize(blob)
deserialize(blob) ==
    IF Len(blob) >= 2 /\ blob[1] # 0
    THEN [kind |-> "Ok", val |-> [self_id |-> blob[1], code |-> Tail(blob)], cause |-> ""]
    ELSE [kind |-> "Err", val |-> [self_id |-> 0, code |-> <<>>], cause |-> "malformed"]

(*************************** file system ***********************************)
MOVE_COMPILED_EXTENSION == "mv"

NoNode == [kind |-> "none", ext |-> "", bytes |-> <<>>, readable |-> FALSE, children |-> <<>>]
Dir(children) == [kind |-> "dir", ext |-> "", bytes |-> <<>>, readable |-> TRUE, children |-> children]
File(ext, bytes, readable) ==
    [kind |-> "file", ext |-> ext, bytes |-> bytes, readable |-> readable, children |-> <<>>]

\* The directory tree the path-based loader runs against.
FsNode(path) ==
    CASE path = "d3" -> Dir(<<"d3/m1.mv", "d3/readme.txt", "d3/sub", "d3/m2.mv">>)
      [] path = "d3/m1.mv" -> File("mv", <<1, 10>>, TRUE)
      [] path = "d3/readme.txt" -> File("txt", <<9, 9>>, TRUE)
      [] path = "d3/sub" -> Dir(<<"d3/sub/m3.mv">>)
      [] path = "d3/sub/m3.mv" -> File("mv", <<3, 30>>, TRUE)
      [] path = "d3/m2.mv" -> File("mv", <<2, 20>>, TRUE)
      [] path = "d2" -> Dir(<<"d2/n1.mv", "d2/n2.mv">>)
      [] path = "d2/n1.mv" -> File("mv", <<4, 40>>, TRUE)
      [] path = "d2/n2.mv" -> File("mv", <<0, 50>>, TRUE)
      [] path = "empty" -> Dir(<<>>)
      [] path = "bad" -> Dir(<<"bad/b1.mv", "bad/b2.mv", "bad/b3.mv">>)
      [] path = "bad/b1.mv" -> File("mv", <<5, 60>>, TRUE)
      [] path = "bad/b2.mv" -> File("mv", <<6, 70>>, FALSE)
      [] path = "bad/b3.mv" -> File("mv", <<7, 80>>, TRUE)
      [] OTHER -> NoNode

\* The paths a caller may pass; "missing" does not exist.
InputPaths == {"d3", "d2", "empty", "bad", "missing", "d3/m1.mv", "d3/readme.txt"}

\* Bug: the predicate accepts every file.
extension_equals_any(path, extension) == FsNode(path).kind = "file"

\* extension_equals(path, MOVE_COMPILED_EXTENSION)
extension_equals(path, extension) ==
    FsNode(path).kind = "file" /\ FsNode(path).ext = extension

\* walkdir::WalkDir::new(path): the files under path, depth first, in directory order
RECURSIVE WalkDir(_)
WalkDir(path) ==
    LET node == FsNode(path)
    IN  CASE node.kind = "file" -> <<path>>
          [] node.kind = "dir" ->
                Concat([i \in 1..Len(node.children) |-> WalkDir(node.children[i])])
          [] OTHER -> <<>>

\* find_filenames(paths, |path| extension_equals(path, MOVE_COMPILED_EXTENSION))
RECURSIVE find_filenames(_)
find_filenames(paths) ==
    IF paths = <<>> THEN Ok(<<>>)
    ELSE LET path == Head(paths)
             rest == find_filenames(Tail(paths))
             here == SelectSeq(WalkDir(path),
                               LAMBDA f : extension_equals(f, MOVE_COMPILED_EXTENSION))
         IN  IF FsNode(path).kind = "none" THEN Err(path)
             ELSE IF rest.kind = "Err" THEN rest
             ELSE Ok(here \o rest.val)

\* std::fs::read(file_name)
fs_read(file_name) ==
    IF FsNode(file_name).kind = "file" /\ FsNode(file_name).readable
    THEN Ok(FsNode(file_name).bytes)
    ELSE Err(file_name)

\* Bug: filter_map(|file_name| std::fs::read(file_name).ok()): unreadable files are skipped.
RECURSIVE read_files_skip(_)
read_files_skip(file_names) ==
    IF file_names = <<>> THEN Ok(<<>>)
    ELSE LET first == fs_read(Head(file_names))
             rest == read_files_skip(Tail(file_names))
         IN  IF first.kind = "Err" THEN rest ELSE Ok(<<first.val>> \o rest.val)

\* .iter().map(|file_name| std::fs::read(file_name).unwrap()).collect::<Vec<_>>()
RECURSIVE read_files(_)
read_files(file_names) ==
    IF file_names = <<>> THEN Ok(<<>>)
    ELSE LET first == fs_read(Head(file_names))
             rest == read_files(Tail(file_names))
         IN  IF first.kind = "Err" THEN Panic(first.cause)
             ELSE IF rest.kind = "Panic" THEN rest
             ELSE Ok(<<first.val>> \o rest.val)

\* The outcome of load_modules_from_paths(paths): the returned vector, or a panic.
paths_outcome(paths) ==
    LET found == find_filenames(paths)
    IN  IF found.kind = "Err" THEN Panic("module loading failed")
        ELSE read_files(found.val)

(*************************** the lazy cells ********************************)
\* Lazy::new(f): the cell is empty and holds its initializer.
LazyNew == [state |-> "INCOMPLETE", init |-> TRUE, value |-> <<>>]

\* Bug: the fast path is missing, so a populated cell is initialised again.
IsComplete_never(cell) == FALSE

\* OnceCell: the value is set and may be read without synchronisation.
IsComplete(cell) == cell.state = "COMPLETE"

\* OnceCell: another thread is running the initializer; the caller parks.
MustWait(cell) == cell.state = "RUNNING"

\* Bug: the initializer is run without the cell being marked as running.
Claim_unsynchronized(cell) == cell

\* OnceCell/Lazy: the caller wins the cell (INCOMPLETE -> RUNNING) and takes the
\* initializer out of it (init.take()).
Claim(cell) == [cell EXCEPT !.state = "RUNNING", !.init = FALSE]

\* OnceCell: the initializer returned; its value is stored and waiters are woken.
Complete(cell, v) == [cell EXCEPT !.state = "COMPLETE", !.value = v]

\* Bug: no guard, so a panicking initializer leaves the cell running for ever.
Release_leak(cell) == cell

\* OnceCell: the initializer panicked.  The guard's drop hands the cell back
\* (RUNNING -> INCOMPLETE) and wakes the waiters; under panic=abort no drop runs.
Release(cell) == [cell EXCEPT !.state = IF panic_strategy = "abort" THEN "RUNNING" ELSE "INCOMPLETE"]

\* Bug: unwrap_or_default() in place of unwrap(): a failure yields a value.
Unwraps_or_default(out) == TRUE

\* Result::unwrap(): the value of Ok; anything else panics.
Unwraps(out) == out.kind = "Ok"

\* Bug: the modules are collected in reverse order.
Collect_front(v, x) == <<x>> \o v

\* Iterator::collect(): the next element goes to the end of the vector.
Collect(v, x) == Append(v, x)

\* A thread may start a call when it is idle or when its previous call panicked
\* and was unwound (the process is still running).
Callable(t) == ~aborted /\ pc[t] \in {"idle", "panicked"}

\* A panic: under panic=abort the process ends at once and no guard is dropped.
Aborts == panic_strategy = "abort"

NoRet == [op |-> "none", name |-> "", paths |-> <<>>, out |-> Ok(<<>>)]

Init ==
    /\ current_release \in ReleaseOutcomes
    /\ panic_strategy \in {"unwind", "abort"}
    /\ aborted = FALSE
    /\ CURRENT_MODULE_BLOBS = LazyNew
    /\ CURRENT_MODULES = LazyNew
    /\ pc = [t \in Threads |-> "idle"]
    /\ op = [t \in Threads |-> "none"]
    /\ acc = [t \in Threads |-> <<>>]
    /\ init_fetches = 0
    /\ deser_count = [i \in 1..MaxBlobs |-> 0]
    /\ fetcher_calls = 0
    /\ called = {}
    /\ observed_blobs = {}
    /\ observed_modules = {}
    /\ ret = NoRet

(*************************** the uncached loaders **************************)
\* Bug: the fetcher's result is unwrapped, so a failure panics.
load_modules_from_release_unwrap(t, release_name) ==
    LET out == module_blobs(release_name)
    IN  /\ Callable(t)
        /\ fetcher_calls < MaxFetcherCalls
        /\ fetcher_calls' = fetcher_calls + 1
        /\ ret' = [op |-> "load_modules_from_release", name |-> release_name,
                   paths |-> <<>>,
                   out |-> IF out.kind = "Ok" THEN out ELSE Panic(out.cause)]
        /\ pc' = [pc EXCEPT ![t] = IF out.kind = "Ok" THEN "idle" ELSE "panicked"]
        /\ aborted' = (out.kind # "Ok" /\ Aborts)
        /\ UNCHANGED <<current_release, panic_strategy, CURRENT_MODULE_BLOBS,
                       CURRENT_MODULES, op, acc, init_fetches, deser_count, called,
                       observed_blobs, observed_modules>>

\* Bug: a successful load of "current" is stored in the Tier 1 cell.
load_modules_from_release_caching(t, release_name) ==
    LET out == module_blobs(release_name)
    IN  /\ Callable(t)
        /\ fetcher_calls < MaxFetcherCalls
        /\ fetcher_calls' = fetcher_calls + 1
        /\ ret' = [op |-> "load_modules_from_release", name |-> release_name,
                   paths |-> <<>>, out |-> out]
        /\ pc' = [pc EXCEPT ![t] = "idle"]
        /\ CURRENT_MODULE_BLOBS' =
              IF release_name = "current" /\ out.kind = "Ok"
                 /\ CURRENT_MODULE_BLOBS.state = "INCOMPLETE"
              THEN [state |-> "COMPLETE", init |-> FALSE, value |-> out.val]
              ELSE CURRENT_MODULE_BLOBS
        /\ UNCHANGED <<current_release, panic_strategy, aborted, CURRENT_MODULES, op,
                       acc, init_fetches, deser_count, called, observed_blobs,
                       observed_modules>>

\* pub fn load_modules_from_release(release_name) -> Result<Vec<Vec<u8>>>
load_modules_from_release(t, release_name) ==
    /\ Callable(t)
    /\ fetcher_calls < MaxFetcherCalls
    /\ fetcher_calls' = fetcher_calls + 1
    /\ ret' = [op |-> "load_modules_from_release", name |-> release_name,
               paths |-> <<>>, out |-> module_blobs(release_name)]
    /\ pc' = [pc EXCEPT ![t] = "idle"]
    /\ UNCHANGED <<current_release, panic_strategy, aborted, CURRENT_MODULE_BLOBS,
                   CURRENT_MODULES, op, acc, init_fetches, deser_count, called,
                   observed_blobs, observed_modules>>

\* pub fn load_modules_from_paths(paths) -> Vec<Vec<u8>>
load_modules_from_paths(t, paths) ==
    LET out == paths_outcome(paths)
    IN  /\ Callable(t)
        /\ ret' = [op |-> "load_modules_from_paths", name |-> "", paths |-> paths,
                   out |-> out]
        /\ pc' = [pc EXCEPT ![t] = IF out.kind = "Panic" THEN "panicked" ELSE "idle"]
        /\ aborted' = (out.kind = "Panic" /\ Aborts)
        /\ UNCHANGED <<current_release, panic_strategy, CURRENT_MODULE_BLOBS,
                       CURRENT_MODULES, op, acc, init_fetches, deser_count,
                       fetcher_calls, called, observed_blobs, observed_modules>>

(*************************** the cached accessors **************************)
\* pub fn current_modules(): the call; the deref of CURRENT_MODULES follows.
current_modules(t) ==
    /\ Callable(t)
    /\ pc' = [pc EXCEPT ![t] = "force_modules"]
    /\ op' = [op EXCEPT ![t] = "current_modules"]
    /\ called' = called \cup {"current_modules"}
    /\ UNCHANGED <<current_release, panic_strategy, aborted, CURRENT_MODULE_BLOBS,
                   CURRENT_MODULES, acc, init_fetches, deser_count, fetcher_calls,
                   observed_blobs, observed_modules, ret>>

\* Bug: current_module_blobs() goes through the compiled-module cache.
current_module_blobs_via_modules(t) ==
    /\ Callable(t)
    /\ pc' = [pc EXCEPT ![t] = "force_modules"]
    /\ op' = [op EXCEPT ![t] = "current_module_blobs"]
    /\ called' = called \cup {"current_module_blobs"}
    /\ UNCHANGED <<current_release, panic_strategy, aborted, CURRENT_MODULE_BLOBS,
                   CURRENT_MODULES, acc, init_fetches, deser_count, fetcher_calls,
                   observed_blobs, observed_modules, ret>>

\* pub fn current_module_blobs(): the call; the deref of CURRENT_MODULE_BLOBS follows.
current_module_blobs(t) ==
    /\ Callable(t)
    /\ pc' = [pc EXCEPT ![t] = "force_blobs"]
    /\ op' = [op EXCEPT ![t] = "current_module_blobs"]
    /\ called' = called \cup {"current_module_blobs"}
    /\ UNCHANGED <<current_release, panic_strategy, aborted, CURRENT_MODULE_BLOBS,
                   CURRENT_MODULES, acc, init_fetches, deser_count, fetcher_calls,
                   observed_blobs, observed_modules, ret>>

\* &CURRENT_MODULES: Lazy::force.  A complete cell is read; an empty cell is
\* claimed by this thread, which takes the initializer and runs it (or panics
\* when the initializer is gone: the cell is poisoned); a running cell blocks.
force_CURRENT_MODULES(t) ==
    /\ ~aborted
    /\ pc[t] = "force_modules"
    /\ ~MustWait(CURRENT_MODULES)
    /\ IF IsComplete(CURRENT_MODULES)
       THEN /\ observed_modules' = observed_modules \cup {CURRENT_MODULES.value}
            /\ pc' = [pc EXCEPT ![t] = "idle"]
            /\ op' = [op EXCEPT ![t] = "none"]
            /\ UNCHANGED <<CURRENT_MODULES, aborted>>
       ELSE IF CURRENT_MODULES.init
       THEN /\ CURRENT_MODULES' = Claim(CURRENT_MODULES)
            /\ pc' = [pc EXCEPT ![t] = "force_blobs"]
            /\ UNCHANGED <<op, observed_modules, aborted>>
       ELSE /\ CURRENT_MODULES' = Release(CURRENT_MODULES)
            /\ aborted' = Aborts
            /\ pc' = [pc EXCEPT ![t] = "panicked"]
            /\ op' = [op EXCEPT ![t] = "none"]
            /\ UNCHANGED observed_modules
    /\ UNCHANGED <<current_release, panic_strategy, CURRENT_MODULE_BLOBS, acc,
                   init_fetches, deser_count, fetcher_calls, called, observed_blobs, ret>>

\* &CURRENT_MODULE_BLOBS / CURRENT_MODULE_BLOBS.iter(): Lazy::force, from the
\* accessor or from inside the CURRENT_MODULES initializer.
force_CURRENT_MODULE_BLOBS(t) ==
    /\ ~aborted
    /\ pc[t] = "force_blobs"
    /\ ~MustWait(CURRENT_MODULE_BLOBS)
    /\ IF IsComplete(CURRENT_MODULE_BLOBS)
       THEN IF op[t] = "current_module_blobs"
            THEN /\ observed_blobs' = observed_blobs \cup {CURRENT_MODULE_BLOBS.value}
                 /\ pc' = [pc EXCEPT ![t] = "idle"]
                 /\ op' = [op EXCEPT ![t] = "none"]
                 /\ UNCHANGED <<CURRENT_MODULE_BLOBS, aborted>>
            ELSE /\ pc' = [pc EXCEPT ![t] = "deserialize"]
                 /\ UNCHANGED <<CURRENT_MODULE_BLOBS, aborted, op, observed_blobs>>
       ELSE IF CURRENT_MODULE_BLOBS.init
       THEN /\ CURRENT_MODULE_BLOBS' = Claim(CURRENT_MODULE_BLOBS)
            /\ pc' = [pc EXCEPT ![t] = "fetch"]
            /\ UNCHANGED <<op, observed_blobs, aborted>>
       ELSE /\ CURRENT_MODULE_BLOBS' = Release(CURRENT_MODULE_BLOBS)
            /\ aborted' = Aborts
            /\ pc' = [pc EXCEPT ![t] = IF op[t] = "current_modules" /\ ~Aborts
                                       THEN "unwind_modules" ELSE "panicked"]
            /\ op' = [op EXCEPT ![t] = IF op[t] = "current_modules" /\ ~Aborts
                                       THEN op[t] ELSE "none"]
            /\ UNCHANGED observed_blobs
    /\ UNCHANGED <<current_release, panic_strategy, CURRENT_MODULES, acc, init_fetches,
                   deser_count, fetcher_calls, called, observed_modules, ret>>

\* Lazy::new(|| load_modules_from_release("current").unwrap()): the initializer
\* of CURRENT_MODULE_BLOBS, run by the thread that claimed the cell.
init_CURRENT_MODULE_BLOBS(t) ==
    LET out == module_blobs("current")
        unwinds == op[t] = "current_modules" /\ ~Aborts
    IN  /\ ~aborted
        /\ pc[t] = "fetch"
        /\ init_fetches' = init_fetches + 1
        /\ fetcher_calls' = fetcher_calls + 1
        /\ IF Unwraps(out)
           THEN /\ CURRENT_MODULE_BLOBS' = Complete(CURRENT_MODULE_BLOBS, out.val)
                /\ pc' = [pc EXCEPT ![t] = "force_blobs"]
                /\ UNCHANGED <<op, aborted>>
           ELSE /\ CURRENT_MODULE_BLOBS' = Release(CURRENT_MODULE_BLOBS)
                /\ aborted' = Aborts
                /\ pc' = [pc EXCEPT ![t] = IF unwinds THEN "unwind_modules" ELSE "panicked"]
                /\ op' = [op EXCEPT ![t] = IF unwinds THEN op[t] ELSE "none"]
        /\ UNCHANGED <<current_release, panic_strategy, CURRENT_MODULES, acc, deser_count,
                       called, observed_blobs, observed_modules, ret>>

\* .map(|blob| CompiledModule::deserialize(blob).unwrap()).collect(): one blob
\* per step, in order; after the last one the vector becomes the cell's value.
init_CURRENT_MODULES(t) ==
    LET blobs == CURRENT_MODULE_BLOBS.value
        i == Len(acc[t]) + 1
        out == deserialize(blobs[i])
    IN  /\ ~aborted
        /\ pc[t] = "deserialize"
        /\ IF i > Len(blobs)
           THEN /\ CURRENT_MODULES' = Complete(CURRENT_MODULES, acc[t])
                /\ pc' = [pc EXCEPT ![t] = "force_modules"]
                /\ acc' = [acc EXCEPT ![t] = <<>>]
                /\ UNCHANGED <<op, aborted, deser_count>>
           ELSE /\ deser_count' = [deser_count EXCEPT ![i] = @ + 1]
                /\ IF Unwraps(out)
                   THEN /\ acc' = [acc EXCEPT ![t] = Collect(@, out.val)]
                        /\ UNCHANGED <<CURRENT_MODULES, pc, op, aborted>>
                   ELSE /\ CURRENT_MODULES' = Release(CURRENT_MODULES)
                        /\ aborted' = Aborts
                        /\ pc' = [pc EXCEPT ![t] = "panicked"]
                        /\ op' = [op EXCEPT ![t] = "none"]
                        /\ acc' = [acc EXCEPT ![t] = <<>>]
        /\ UNCHANGED <<current_release, panic_strategy, CURRENT_MODULE_BLOBS, init_fetches,
                       fetcher_calls, called, observed_blobs, observed_modules, ret>>

\* A panic raised while initializing CURRENT_MODULE_BLOBS from inside the
\* CURRENT_MODULES initializer unwinds through it: CURRENT_MODULES is released.
unwind_CURRENT_MODULES(t) ==
    /\ ~aborted
    /\ pc[t] = "unwind_modules"
    /\ CURRENT_MODULES' = Release(CURRENT_MODULES)
    /\ pc' = [pc EXCEPT ![t] = "panicked"]
    /\ op' = [op EXCEPT ![t] = "none"]
    /\ UNCHANGED <<current_release, panic_strategy, aborted, CURRENT_MODULE_BLOBS, acc,
                   init_fetches, deser_count, fetcher_calls, called, observed_blobs,
                   observed_modules, ret>>

(*************************** specifications ********************************)
\* The path lists the loaders are called with while the caches are in use.
SamplePaths == {<<"d3", "d2">>, <<"missing">>}

Step(t) ==
    \/ force_CURRENT_MODULES(t)
    \/ force_CURRENT_MODULE_BLOBS(t)
    \/ init_CURRENT_MODULE_BLOBS(t)
    \/ init_CURRENT_MODULES(t)
    \/ unwind_CURRENT_MODULES(t)

Next ==
    \/ \E t \in Threads : current_modules(t)
    \/ \E t \in Threads : current_module_blobs(t)
    \/ \E t \in Threads : Step(t)
    \/ \E t \in Threads, name \in ReleaseNames : load_modules_from_release(t, name)
    \/ \E t \in Threads, paths \in SamplePaths : load_modules_from_paths(t, paths)

Spec == Init /\ [][Next]_vars

\* The cached accessors alone; the operating system schedules every thread
\* that can run, so a thread inside an accessor keeps taking its steps.
CacheNext ==
    \/ \E t \in Threads : current_modules(t)
    \/ \E t \in Threads : current_module_blobs(t)
    \/ \E t \in Threads : Step(t)

FairSpec == Init /\ [][CacheNext]_vars /\ \A t \in Threads : WF_vars(Step(t))

\* load_modules_from_paths alone, called by one thread with every path list
\* up to MaxPaths; the release store plays no part and is left empty.
PathsInit == Init /\ current_release = Err("current")

PathsNext ==
    \E paths \in SeqsUpTo(InputPaths, MaxPaths) :
        load_modules_from_paths(CHOOSE t \in Threads : TRUE, paths)

PathsSpec == PathsInit /\ [][PathsNext]_vars

(*************************** properties ************************************)
BlobIndexes == 1..MaxBlobs

\* Threads running the initializer of a cell (between claiming it and
\* completing or releasing it).
InitializingBlobs == {t \in Threads : pc[t] = "fetch"}
InitializingModules ==
    {t \in Threads : op[t] = "current_modules"
                     /\ pc[t] \in {"force_blobs", "fetch", "deserialize", "unwind_modules"}}

\* Some blob of the "current" release does not deserialize.
MalformedRelease ==
    /\ current_release.kind = "Ok"
    /\ \E i \in 1..Len(current_release.val) : deserialize(current_release.val[i]).kind = "Err"

C2_TierCorrespondence ==
    CURRENT_MODULES.state = "COMPLETE" =>
        /\ CURRENT_MODULE_BLOBS.state = "COMPLETE"
        /\ Len(CURRENT_MODULES.value) = Len(CURRENT_MODULE_BLOBS.value)
        /\ \A i \in 1..Len(CURRENT_MODULE_BLOBS.value) :
              /\ deserialize(CURRENT_MODULE_BLOBS.value[i]).kind = "Ok"
              /\ CURRENT_MODULES.value[i] = deserialize(CURRENT_MODULE_BLOBS.value[i]).val

\* Tier 2 holds two different modules.
C2_Witness ==
    /\ CURRENT_MODULES.state = "COMPLETE"
    /\ Len(CURRENT_MODULES.value) = 2
    /\ CURRENT_MODULES.value[1] # CURRENT_MODULES.value[2]

\* C3: a populated tier never changes again, no step runs the fetcher or the
\* deserializer for the caches once the tier they feed is populated, and every
\* result an accessor hands out is the value its tier holds.
C3_PopulatedOnce ==
    [][/\ CURRENT_MODULE_BLOBS.state = "COMPLETE" =>
              /\ CURRENT_MODULE_BLOBS' = CURRENT_MODULE_BLOBS
              /\ init_fetches' = init_fetches
              /\ observed_blobs' \subseteq {CURRENT_MODULE_BLOBS.value}
       /\ CURRENT_MODULES.state = "COMPLETE" =>
              /\ CURRENT_MODULES' = CURRENT_MODULES
              /\ deser_count' = deser_count
              /\ init_fetches' = init_fetches
              /\ observed_modules' \subseteq {CURRENT_MODULES.value}
       /\ CURRENT_MODULE_BLOBS'.value # CURRENT_MODULE_BLOBS.value =>
              CURRENT_MODULE_BLOBS.state # "COMPLETE" /\ CURRENT_MODULE_BLOBS'.state = "COMPLETE"
       /\ CURRENT_MODULES'.value # CURRENT_MODULES.value =>
              CURRENT_MODULES.state # "COMPLETE" /\ CURRENT_MODULES'.state = "COMPLETE"]_vars

\* Both tiers are populated, both accessors have returned, and the loaders
\* have been called as well.
C3_Witness ==
    /\ CURRENT_MODULES.state = "COMPLETE" /\ CURRENT_MODULE_BLOBS.state = "COMPLETE"
    /\ observed_modules # {} /\ observed_blobs # {}
    /\ ret.op = "load_modules_from_paths"
    /\ fetcher_calls = 2
    /\ \E t \in Threads : pc[t] = "force_modules"

C5_ReleaseOutcome ==
    [][/\ ret'.out.kind = "Err" => ret'.op = "load_modules_from_release"
       /\ ret'.op = "load_modules_from_release" =>
              /\ ret'.out.kind \in {"Ok", "Err"}
              /\ ret'.name = "current" => ret'.out = current_release
              /\ ret'.name = "nonexistent-release-xyz" =>
                    ret'.out = Err("nonexistent-release-xyz")
       /\ (\E t \in Threads, name \in ReleaseNames : load_modules_from_release(t, name)) =>
              /\ fetcher_calls' = fetcher_calls + 1
              /\ aborted' = aborted
              /\ \A t \in Threads : pc'[t] = "panicked" => pc[t] = "panicked"]_vars

\* A missing release was asked for and the failure came back as a value; the
\* "current" release was loaded as well.
C5_Witness ==
    /\ ret.op = "load_modules_from_release"
    /\ ret.name = "nonexistent-release-xyz"
    /\ ret.out.kind = "Err"
    /\ fetcher_calls = 2 /\ init_fetches = 1
    /\ ~aborted /\ \A t \in Threads : pc[t] # "panicked"

\* The files the enumerator yields for the compiled-module extension.
MatchingFiles(paths) ==
    Concat([i \in 1..Len(paths) |->
               SelectSeq(WalkDir(paths[i]), LAMBDA f : FsNode(f).ext = "mv")])

\* A path that does not exist, or a matching file that cannot be read.
LoadFails(paths) ==
    \/ \E i \in 1..Len(paths) : FsNode(paths[i]).kind = "none"
    \/ \E k \in 1..Len(MatchingFiles(paths)) : ~FsNode(MatchingFiles(paths)[k]).readable

\* C6: load_modules_from_paths(paths) panics and returns nothing exactly when
\* the enumeration fails or a matching file cannot be read; the panic ends the
\* calling thread (and the process, under panic=abort).
C6_AllOrPanic ==
    ret.op = "load_modules_from_paths" =>
        /\ ret.out.kind \in {"Ok", "Panic"}
        /\ LoadFails(ret.paths) <=> ret.out.kind = "Panic"
        /\ ret.out.kind = "Panic" =>
              /\ ret.out.val = <<>>
              /\ \E t \in Threads : pc[t] = "panicked"
              /\ aborted = (panic_strategy = "abort")

\* Three files were readable before the unreadable one was met.
C6_Witness ==
    /\ ret.op = "load_modules_from_paths"
    /\ ret.paths = <<"d3", "bad">>
    /\ ret.out.kind = "Panic"

\* C7: on success the result holds, in enumeration order, the contents of
\* every file with the compiled-module extension under the given paths, and
\* nothing else.
C7_MatchingFilesInOrder ==
    (ret.op = "load_modules_from_paths" /\ ret.out.kind = "Ok") =>
        /\ Len(ret.out.val) = Len(MatchingFiles(ret.paths))
        /\ \A k \in 1..Len(ret.out.val) :
              ret.out.val[k] = FsNode(MatchingFiles(ret.paths)[k]).bytes
        /\ ret.paths = <<"d3", "d2">> =>
              ret.out.val = <<<<1, 10>>, <<3, 30>>, <<2, 20>>, <<4, 40>>, <<0, 50>>>>
        /\ ret.paths \in {<<>>, <<"empty">>, <<"d3/readme.txt">>} => ret.out.val = <<>>

\* A directory with three module files and one with two give five blobs.
C7_Witness ==
    /\ ret.op = "load_modules_from_paths"
    /\ ret.paths = <<"d3", "d2">>
    /\ ret.out.kind = "Ok"
    /\ Len(ret.out.val) = 5

InAccessor(t) == pc[t] \notin {"idle", "panicked"}

\* The initializer of a tier has run and failed.
BlobsInitFailed ==
    /\ ~CURRENT_MODULE_BLOBS.init
    /\ CURRENT_MODULE_BLOBS.state # "COMPLETE"
    /\ InitializingBlobs = {}
ModulesInitFailed ==
    /\ ~CURRENT_MODULES.init
    /\ CURRENT_MODULES.state # "COMPLETE"
    /\ InitializingModules = {}

C10_LazyInOrder ==
    /\ called = {} =>
          /\ init_fetches = 0
          /\ CURRENT_MODULE_BLOBS = LazyNew
    /\ "current_modules" \notin called =>
          /\ \A i \in BlobIndexes : deser_count[i] = 0
          /\ CURRENT_MODULES = LazyNew
    /\ CURRENT_MODULES.state = "COMPLETE" =>
          /\ CURRENT_MODULE_BLOBS.state = "COMPLETE"
          /\ init_fetches = 1
          /\ Len(CURRENT_MODULES.value) = Len(CURRENT_MODULE_BLOBS.value)
    /\ CURRENT_MODULES.state # "COMPLETE" => CURRENT_MODULES.value = <<>>
    /\ CURRENT_MODULE_BLOBS.state # "COMPLETE" =>
          /\ CURRENT_MODULE_BLOBS.value = <<>>
          /\ \A i \in BlobIndexes : deser_count[i] = 0
    /\ \A i \in BlobIndexes : deser_count[i] > 0 => i <= Len(CURRENT_MODULE_BLOBS.value)

\* current_module_blobs() alone has been called and has returned two blobs:
\* Tier 1 is populated, Tier 2 is untouched.
C10_Witness ==
    /\ called = {"current_module_blobs"}
    /\ observed_blobs # {}
    /\ CURRENT_MODULE_BLOBS.state = "COMPLETE"
    /\ Len(CURRENT_MODULE_BLOBS.value) = 2
    /\ CURRENT_MODULES = LazyNew

====
